---- MODULE Spec2Model ----
(***************************************************************************)
(* Model of the claim-evaluation pipeline of insure-smart-eval:            *)
(* LLMService.evaluateClaim (src/src/services/LLMService.ts).              *)
(*                                                                         *)
(* One invocation of evaluateClaim is followed from the call to the        *)
(* settlement of the promise it returns.  Every action is one task of the  *)
(* JavaScript event loop together with the microtasks it triggers: the     *)
(* call itself, one FileReader event, the settlement of fetch(), the       *)
(* settlement of response.json().                                           *)
(***************************************************************************)
EXTENDS Integers, Sequences, FiniteSets, TLC

(***************************************************************************)
(* Bounds of the model.                                                    *)
(***************************************************************************)
MaxFiles == 2

(***************************************************************************)
(* JavaScript values, as far as the code looks at them: a type tag, a      *)
(* string payload (strings) and an integer payload (numbers; booleans as   *)
(* 0/1; arrays and objects by their number of entries).                    *)
(***************************************************************************)
Undefined == [t |-> "undefined", s |-> "", n |-> 0]
Null      == [t |-> "null",      s |-> "", n |-> 0]
Str(s)    == [t |-> "string",    s |-> s,  n |-> 0]
Num(n)    == [t |-> "number",    s |-> "", n |-> n]
Bool(b)   == [t |-> "boolean",   s |-> "", n |-> IF b THEN 1 ELSE 0]
Arr(n)    == [t |-> "array",     s |-> "", n |-> n]
Obj(n)    == [t |-> "object",    s |-> "", n |-> n]

\* ToBoolean of the language: what `!v` and `a || b` test.
Truthy(v) ==
    CASE v.t = "undefined" -> FALSE
      [] v.t = "null"      -> FALSE
      [] v.t = "string"    -> v.s # ""
      [] v.t = "number"    -> v.n # 0
      [] v.t = "boolean"   -> v.n = 1
      [] OTHER             -> TRUE

\* Array.prototype.join
RECURSIVE Join(_, _)
Join(seq, sep) ==
    IF seq = << >> THEN ""
    ELSE IF Len(seq) = 1 THEN seq[1]
    ELSE seq[1] \o sep \o Join(Tail(seq), sep)

(***************************************************************************)
(* Errors are the objects the code throws: a class name and a message.     *)
(***************************************************************************)
Err(name, message) == [name |-> name, message |-> message]
NoError == Err("", "")
ErrorClasses == {"Error", "TypeError", "SyntaxError"}
\* `error instanceof Error`
InstanceOfError(e) == e.name \in ErrorClasses

(***************************************************************************)
(* Inputs of evaluateClaim.                                                *)
(***************************************************************************)
TextFile == [name |-> "policy.txt", type |-> "text/plain",
             text |-> "Appendectomy is covered after 90 days waiting period."]
PdfFile  == [name |-> "policy.pdf", type |-> "application/pdf",
             text |-> "%PDF-1.4 binary"]
WordFile == [name |-> "terms.docx",
             type |-> "application/vnd.openxmlformats-officedocument.wordprocessingml.document",
             text |-> "PK docx binary"]
FileKinds == {TextFile, PdfFile, WordFile}

FileLists == UNION {[1..n -> FileKinds] : n \in 0..MaxFiles}
Queries == {"32-year-old female, appendectomy, 2-year-old policy", ""}
ApiKeys == {"sk-test"}

(***************************************************************************)
(* Promises of the per-file mapper of evaluateClaim.                       *)
(***************************************************************************)
NoDoc == [filename |-> "", content |-> ""]
Pending       == [state |-> "pending",   doc |-> NoDoc, error |-> NoError]
Resolved(doc) == [state |-> "fulfilled", doc |-> doc,   error |-> NoError]
Rejected(err) == [state |-> "rejected",  doc |-> NoDoc, error |-> err]

PdfPlaceholder(name) ==
    "[PDF Content from " \o name \o "]\n\nThis is simulated PDF text content. In a real implementation, this would be extracted using PDF.js or a similar library."

\* readFileAsText at the time of the call: a PDF resolves at once with the
\* placeholder and its reader is never started; any other file starts
\* reader.readAsText and stays pending until a reader event.
readFileAsText(file) ==
    IF file.type = "application/pdf"
    THEN [state |-> "fulfilled", content |-> PdfPlaceholder(file.name)]
    ELSE [state |-> "pending", content |-> ""]

\* reader.onload: reader.result of readAsText is the decoded text
onload(readerResult) ==
    IF readerResult.t = "string"
    THEN [state |-> "fulfilled", content |-> readerResult.s, error |-> NoError]
    ELSE [state |-> "rejected", content |-> "",
          error |-> Err("Error", "Failed to read file as text")]

\* reader.onerror
onerror == Err("Error", "File reading failed")

\* files.map(async (file) => ({filename: file.name, content: await read}))
mapper(file, read) ==
    IF read.state = "fulfilled"
    THEN Resolved([filename |-> file.name, content |-> read.content])
    ELSE IF read.state = "rejected" THEN Rejected(read.error)
    ELSE Pending

\* The values Promise.all fulfils with: one per input promise, at the index
\* of the input promise, whatever the order of settlement.
PromiseAllValuesInSettlementOrder(promises, order) ==
    [k \in 1..Len(promises) |-> promises[order[k]].doc]
PromiseAllValues(promises, order) ==
    [k \in 1..Len(promises) |-> promises[k].doc]

\* Promise.all: rejected as soon as one input is rejected, fulfilled when
\* every input is fulfilled, pending otherwise.
PromiseAllRace(promises) ==
    IF \E i \in 1..Len(promises) : promises[i].state = "fulfilled"
    THEN "fulfilled"
    ELSE IF \E i \in 1..Len(promises) : promises[i].state = "rejected"
    THEN "rejected" ELSE "pending"
PromiseAllSettled(promises) ==
    IF \A i \in 1..Len(promises) : promises[i].state # "pending"
    THEN "fulfilled" ELSE "pending"
PromiseAll(promises) ==
    IF \E i \in 1..Len(promises) : promises[i].state = "rejected"
    THEN "rejected"
    ELSE IF \A i \in 1..Len(promises) : promises[i].state = "fulfilled"
    THEN "fulfilled" ELSE "pending"

(***************************************************************************)
(* Prompt composition.                                                     *)
(***************************************************************************)
section(doc) == "=== " \o doc.filename \o " ===\n" \o doc.content

documentsTextOrNotice(docs) ==
    IF docs = << >> THEN "(no policy documents were provided)"
    ELSE Join([k \in 1..Len(docs) |-> section(docs[k])], "\n\n")
documentsText(docs) ==
    Join([k \in 1..Len(docs) |-> section(docs[k])], "\n\n")

PromptHead ==
    "You are an expert insurance claim evaluator. Analyze the following medical case and policy documents to determine if the claim should be approved.\n\nMEDICAL CASE:\n"

PromptSchema ==
    "\n\nPlease provide a JSON response with the following structure:\n{\n  \"parsedQuery\": {\n    \"age\": number or null,\n    \"gender\": \"string or null\",\n    \"procedure\": \"string or null\", \n    \"location\": \"string or null\",\n    \"policyDuration\": \"string or null\"\n  },\n  \"decision\": \"Approved\" | \"Rejected\" | \"More Info Needed\",\n  \"amount\": number or null,\n  \"justification\": [\n    {\n      \"title\": \"Relevant policy clause title\",\n      \"pageNumber\": number or null,\n      \"snippet\": \"Relevant text from policy\",\n      \"reasoning\": \"Explanation of how this clause applies\"\n    }\n  ]\n}\n\n"

PromptGuidelines ==
    "Guidelines:\n1. Parse the query to extract structured information\n2. Look for relevant clauses in the policy documents (exclusions, waiting periods, coverage limits, etc.)\n3. Make a decision based on policy terms\n4. Provide clear reasoning for each relevant clause\n5. If amount is covered, estimate based on policy terms\n6. Be thorough but concise in your analysis\n\nRespond only with valid JSON."

ComposePrompt(q, docs) ==
    PromptHead \o q \o "\n\nPOLICY DOCUMENTS:\n" \o documentsText(docs)
        \o PromptSchema \o PromptGuidelines

\* the one fetch() call of evaluateClaim
Request(p, key) ==
    [url |-> "https://api.openai.com/v1/chat/completions",
     method |-> "POST",
     authorization |-> "Bearer " \o key,
     model |-> "gpt-4",
     system |-> "You are an expert insurance claim evaluator. Always respond with valid JSON.",
     user |-> p,
     max_tokens |-> 2000]

(***************************************************************************)
(* The service's answer.  A response is a status line and a body; the body *)
(* is described by what response.json() and the property accesses of the   *)
(* code find in it.                                                        *)
(***************************************************************************)
Statuses == {200, 401, 429, 500}
StatusText(status) ==
    CASE status = 200 -> "OK"
      [] status = 401 -> "Unauthorized"
      [] status = 429 -> "Too Many Requests"
      [] OTHER        -> "Internal Server Error"

\* response.ok
ok(status) == status \in 200..299

\* Values of the three required fields of the completion (Undefined: the
\* key is absent).
ParsedQueryValues == {Undefined, Null, Obj(0), Obj(1)}
DecisionValues ==
    {Undefined, Null, Str(""), Num(0), Bool(FALSE), Str("Approved"),
     Str("Rejected"), Str("More Info Needed"), Str("Maybe")}
JustificationValues == {Undefined, Null, Arr(0), Arr(1)}

\* What a completion text can denote: an object with some of the required
\* keys, or a JSON value that is not an object.
JSONObject(pq, d, j) ==
    [t |-> "object", n |-> 0, parsedQuery |-> pq, decision |-> d,
     justification |-> j]
JSONNull == [t |-> "null", n |-> 0, parsedQuery |-> Undefined,
             decision |-> Undefined, justification |-> Undefined]
JSONNumber(k) == [t |-> "number", n |-> k, parsedQuery |-> Undefined,
                  decision |-> Undefined, justification |-> Undefined]
JSONValues ==
    {JSONObject(pq, d, j) : pq \in ParsedQueryValues, d \in DecisionValues,
                            j \in JustificationValues}
        \cup {JSONNull, JSONNumber(42)}

\* JSON text of a field value
StringifyValue(v) ==
    CASE v.t = "null"    -> "null"
      [] v.t = "string"  -> "\"" \o v.s \o "\""
      [] v.t = "number"  -> ToString(v.n)
      [] v.t = "boolean" -> IF v.n = 1 THEN "true" ELSE "false"
      [] v.t = "array"   ->
            IF v.n = 0 THEN "[]"
            ELSE "[{\"title\":\"Waiting period\",\"pageNumber\":3,\"snippet\":\"covered after 90 days\",\"reasoning\":\"policy is 2 years old\"}]"
      [] v.t = "object"  ->
            IF v.n = 0 THEN "{}"
            ELSE "{\"age\":32,\"gender\":\"female\",\"procedure\":\"appendectomy\"}"
      [] OTHER -> ""

member(key, v) == "\"" \o key \o "\":" \o StringifyValue(v)

\* JSON text of a completion value
Stringify(v) ==
    CASE v.t = "null"   -> "null"
      [] v.t = "number" -> ToString(v.n)
      [] OTHER ->
            "{" \o Join(
                (IF v.parsedQuery.t = "undefined" THEN << >>
                 ELSE <<member("parsedQuery", v.parsedQuery)>>)
             \o (IF v.decision.t = "undefined" THEN << >>
                 ELSE <<member("decision", v.decision)>>)
             \o (IF v.justification.t = "undefined" THEN << >>
                 ELSE <<member("justification", v.justification)>>), ",")
            \o "}"

JSONTexts == {Stringify(v) : v \in JSONValues}
ProseTexts == {"I cannot process this request.", "{\"decision\": \"Appro"}
ContentTexts == JSONTexts \cup ProseTexts

\* the text of a response body that is not JSON (json = "invalid" below)
InvalidBodyText == "<html>502 Bad Gateway</html>"

\* The message of the SyntaxError of JSON.parse and of response.json() on a
\* text that is not JSON.  The language leaves the wording to the engine;
\* this is the wording of V8 (Node.js, Chrome), which quotes the offending
\* character and the first ten characters of the text.
SyntaxErrorMessage(text) ==
    IF text = "" THEN "Unexpected end of JSON input"
    ELSE IF text = "{\"decision\": \"Appro"
    THEN "Unterminated string in JSON at position " \o ToString(Len(text))
    ELSE "Unexpected token '" \o SubSeq(text, 1, 1) \o "', \""
             \o SubSeq(text, 1, 10) \o "\"... is not valid JSON"

\* JSON.parse on the texts above: the value whose JSON text it is, or a
\* SyntaxError when it is the JSON text of no value.
ParseTable ==
    [text \in ContentTexts |->
        IF \E v \in JSONValues : Stringify(v) = text
        THEN [threw |-> FALSE,
              value |-> CHOOSE v \in JSONValues : Stringify(v) = text]
        ELSE [threw |-> TRUE, value |-> JSONNull]]
JSONParse(text) == ParseTable[text]

\* message.content of the first choice
Contents == {Undefined, Null, Str("")} \cup {Str(text) : text \in ContentTexts}

\* Response bodies.  json: whether the body is JSON at all, and whether it
\* is the value null; errorField / errorMessage: the `error` member and its
\* `message`; choices / content: the `choices` member and the content of
\* its first message.
Body(json, ef, em, ch, c) ==
    [json |-> json, errorField |-> ef, errorMessage |-> em,
     choices |-> ch, content |-> c]
EmptyObjectBody == Body("object", "absent", Undefined, "absent", Undefined)
ErrorBodies ==
    {Body("invalid", "absent", Undefined, "absent", Undefined),
     Body("null", "absent", Undefined, "absent", Undefined),
     EmptyObjectBody,
     Body("object", "string", Undefined, "absent", Undefined),
     Body("object", "object", Undefined, "absent", Undefined),
     Body("object", "object", Str(""), "absent", Undefined),
     Body("object", "object", Str("Incorrect API key provided"), "absent",
          Undefined),
     Body("object", "object", Str("The server had an error"), "absent",
          Undefined)}
CompletionBodies ==
    {Body("object", "absent", Undefined, "empty", Undefined)}
        \cup {Body("object", "absent", Undefined, "one", c) : c \in Contents}
Bodies == ErrorBodies \cup CompletionBodies

NoResponse == [status |-> 0, statusText |-> "", body |-> EmptyObjectBody]
Responses ==
    {[status |-> st, statusText |-> StatusText(st), body |-> b] :
        st \in Statuses, b \in Bodies}

\* what fetch() rejects with when the service cannot be reached
TransportFailures == {Err("TypeError", "Failed to fetch")}

NoResult == JSONNull

\* A step of the code ends by returning a value or by throwing.
Return(v) == [threw |-> FALSE, value |-> v, error |-> NoError]
Throw(e)  == [threw |-> TRUE, value |-> NoResult, error |-> e]

\* `await response.json().catch(() => ({}))` of the !response.ok branch
errorData(body) == IF body.json = "invalid" THEN EmptyObjectBody ELSE body

\* errorData.error?.message
errorMessageOf(body) ==
    IF body.errorField = "object" THEN body.errorMessage ELSE Undefined

\* the !response.ok branch: always throws
NotOkBranch(resp) ==
    LET data == errorData(resp.body) IN
    IF data.json = "null"
    THEN Throw(Err("TypeError",
                   "Cannot read properties of null (reading 'error')"))
    ELSE IF Truthy(errorMessageOf(data))
    THEN Throw(Err("Error", errorMessageOf(data).s))
    ELSE Throw(Err("Error", "OpenAI API error: " \o ToString(resp.status)
                              \o " " \o resp.statusText))

\* the check of the parsed response
StructureInvalidStrict(r) ==
    \/ ~Truthy(r.parsedQuery)
    \/ r.decision \notin {Str("Approved"), Str("Rejected"),
                          Str("More Info Needed")}
    \/ ~Truthy(r.justification)
StructureInvalid(r) ==
    ~Truthy(r.parsedQuery) \/ ~Truthy(r.decision) \/ ~Truthy(r.justification)

\* body of the inner try: JSON.parse and the structure check
TryValidate(content) ==
    LET parsed == JSONParse(content) IN
    IF parsed.threw
    THEN Throw(Err("SyntaxError", SyntaxErrorMessage(content)))
    ELSE IF parsed.value.t = "null"
    THEN Throw(Err("TypeError",
                   "Cannot read properties of null (reading 'parsedQuery')"))
    ELSE IF StructureInvalid(parsed.value)
    THEN Throw(Err("Error", "Invalid response structure from AI"))
    ELSE Return(parsed.value)

\* the inner catch: whatever was thrown in the try is replaced
InnerCatchRethrow(parseError) == parseError
InnerCatch(parseError) ==
    Err("Error", "Invalid JSON response from AI. Please try again.")

\* lines 148-160
Validate(content) ==
    LET r == TryValidate(content) IN
    IF r.threw THEN Throw(InnerCatch(r.error)) ELSE r

\* data.choices[0]?.message?.content and the content check; stage: the
\* stage in which the step ended
ReadCompletionUndefinedOnly(body) ==
    IF body.json = "invalid"
    THEN [stage |-> "request", content |-> Undefined,
          end |-> Throw(Err("SyntaxError",
                            SyntaxErrorMessage(InvalidBodyText)))]
    ELSE IF body.json = "null"
    THEN [stage |-> "request", content |-> Undefined,
          end |-> Throw(Err("TypeError",
                     "Cannot read properties of null (reading 'choices')"))]
    ELSE IF body.choices = "absent"
    THEN [stage |-> "request", content |-> Undefined,
          end |-> Throw(Err("TypeError",
                     "Cannot read properties of undefined (reading '0')"))]
    ELSE LET content == IF body.choices = "one" THEN body.content
                        ELSE Undefined IN
         IF content.t = "undefined"
         THEN [stage |-> "request", content |-> content,
               end |-> Throw(Err("Error", "No response content from OpenAI"))]
         ELSE IF ~Truthy(content)
         THEN [stage |-> "validate", content |-> content,
               end |-> Throw(InnerCatch(
                          Err("SyntaxError", SyntaxErrorMessage(""))))]
         ELSE [stage |-> "validate", content |-> content,
               end |-> Validate(content.s)]
ReadCompletion(body) ==
    IF body.json = "invalid"
    THEN [stage |-> "request", content |-> Undefined,
          end |-> Throw(Err("SyntaxError",
                            SyntaxErrorMessage(InvalidBodyText)))]
    ELSE IF body.json = "null"
    THEN [stage |-> "request", content |-> Undefined,
          end |-> Throw(Err("TypeError",
                     "Cannot read properties of null (reading 'choices')"))]
    ELSE IF body.choices = "absent"
    THEN [stage |-> "request", content |-> Undefined,
          end |-> Throw(Err("TypeError",
                     "Cannot read properties of undefined (reading '0')"))]
    ELSE LET content == IF body.choices = "one" THEN body.content
                        ELSE Undefined IN
         IF ~Truthy(content)
         THEN [stage |-> "request", content |-> content,
               end |-> Throw(Err("Error", "No response content from OpenAI"))]
         ELSE [stage |-> "validate", content |-> content,
               end |-> Validate(content.s)]

VARIABLES
    query, files, apiKey,   \* the arguments of evaluateClaim
    pc,                     \* where the invocation is suspended
    promises,               \* the mapper's promise of each file
    settled,                \* indices of the files in order of settlement
    documentContents,       \* the value `await Promise.all` yielded
    prompt,                 \* the composed prompt
    requests,               \* the HTTP requests issued so far
    stages,                 \* the pipeline stages started so far
    response,               \* the response fetch() resolved with
    outcome,                \* "pending", "returned" or "failed"
    result,                 \* the value evaluateClaim returned
    error,                  \* the error evaluateClaim rejected with
    failStage,              \* the stage that raised it
    \* state of the ClaimEvaluator component
    variant,                \* "text": ClaimEvaluator.tsx, "upload": with files
    uiQuery,                \* useState query
    uiFiles,                \* useState files (upload variant)
    uiApiKey,               \* useState apiKey
    isEvaluating,           \* useState isEvaluating
    uiResult,               \* useState result (NoResult: null)
    showApiKeyInput,        \* useState showApiKeyInput
    toast,                  \* the toast shown last
    edits                   \* number of input events handled so far

serviceVars == <<query, files, apiKey, pc, promises, settled, documentContents,
                 prompt, requests, stages, response, outcome, result, error,
                 failStage>>
uiVars == <<variant, uiQuery, uiFiles, uiApiKey, isEvaluating, uiResult,
            showApiKeyInput, toast, edits>>
vars == <<query, files, apiKey, pc, promises, settled, documentContents,
          prompt, requests, stages, response, outcome, result, error,
          failStage, variant, uiQuery, uiFiles, uiApiKey, isEvaluating,
          uiResult, showApiKeyInput, toast, edits>>

Toast(title, description, kind) ==
    [title |-> title, description |-> description, variant |-> kind]
NoToast == Toast("", "", "")

\* the component as useState initialises it
Mounted ==
    /\ uiQuery = ""
    /\ uiFiles = << >>
    /\ uiApiKey = ""
    /\ isEvaluating = FALSE
    /\ uiResult = NoResult
    /\ showApiKeyInput = FALSE
    /\ toast = NoToast
    /\ edits = 0

Init ==
    /\ query \in Queries
    /\ files \in FileLists
    /\ apiKey \in ApiKeys
    /\ pc = "idle"
    /\ promises = << >>
    /\ settled = << >>
    /\ documentContents = << >>
    /\ prompt = ""
    /\ requests = << >>
    /\ stages = << >>
    /\ response = NoResponse
    /\ outcome = "pending"
    /\ result = NoResult
    /\ error = NoError
    /\ failStage = ""
    /\ variant = "upload"
    /\ Mounted

\* outer catch of evaluateClaim: an Error is rethrown as it is
OuterCatch(e) ==
    IF InstanceOfError(e) THEN e
    ELSE Err("Error", "Unknown error occurred during claim evaluation")

\* evaluateClaim resumes after `await Promise.all`, or stays suspended
AfterIngest(ps, order, started) ==
    LET join == PromiseAll(ps) IN
    CASE join = "fulfilled" ->
            /\ documentContents' = PromiseAllValues(ps, order)
            /\ prompt' = ComposePrompt(query, documentContents')
            /\ requests' = Append(requests, Request(prompt', apiKey))
            /\ stages' = started \o <<"compose", "request">>
            /\ pc' = "request"
            /\ UNCHANGED <<outcome, error, failStage>>
      [] join = "rejected" ->
            /\ outcome' = "failed"
            /\ error' = OuterCatch(
                 ps[CHOOSE i \in 1..Len(ps) : ps[i].state = "rejected"].error)
            /\ failStage' = "ingest"
            /\ stages' = started
            /\ pc' = "done"
            /\ UNCHANGED <<documentContents, prompt, requests>>
      [] OTHER ->
            /\ stages' = started
            /\ pc' = "ingest"
            /\ UNCHANGED <<documentContents, prompt, requests,
                           outcome, error, failStage>>

\* LLMService.evaluateClaim(query, files, apiKey) is called
Call ==
    /\ pc = "idle"
    /\ promises' = [i \in 1..Len(files) |->
                      mapper(files[i], readFileAsText(files[i]))]
    /\ settled' = SelectSeq([i \in 1..Len(files) |-> i],
                            LAMBDA i : promises'[i].state # "pending")
    /\ AfterIngest(promises', settled', <<"ingest">>)
    /\ UNCHANGED <<query, files, apiKey, response, result>>

\* the load event of the reader of file i
ReaderOnload(i) ==
    /\ pc # "idle"
    /\ i \in 1..Len(files)
    /\ promises[i].state = "pending"
    /\ promises' = [promises EXCEPT
                      ![i] = mapper(files[i], onload(Str(files[i].text)))]
    /\ settled' = Append(settled, i)
    /\ IF pc = "ingest"
       THEN AfterIngest(promises', settled', stages)
       ELSE UNCHANGED <<pc, documentContents, prompt, requests, stages,
                        outcome, error, failStage>>
    /\ UNCHANGED <<query, files, apiKey, response, result>>

\* the error event of the reader of file i
ReaderOnerror(i) ==
    /\ pc # "idle"
    /\ i \in 1..Len(files)
    /\ promises[i].state = "pending"
    /\ promises' = [promises EXCEPT
                      ![i] = mapper(files[i],
                                    [state |-> "rejected", content |-> "",
                                     error |-> onerror])]
    /\ settled' = Append(settled, i)
    /\ IF pc = "ingest"
       THEN AfterIngest(promises', settled', stages)
       ELSE UNCHANGED <<pc, documentContents, prompt, requests, stages,
                        outcome, error, failStage>>
    /\ UNCHANGED <<query, files, apiKey, response, result>>

\* evaluateClaim ends: its promise is fulfilled with a value or rejected
\* with what the outer catch rethrows.  Nothing is sent again.
SettleRetrying(end, stage) ==
    IF end.threw /\ stage = "request" /\ Len(requests) < 2
    THEN /\ requests' = Append(requests, requests[1])
         /\ pc' = "request"
         /\ UNCHANGED <<outcome, result, error, failStage>>
    ELSE /\ pc' = "done"
         /\ outcome' = IF end.threw THEN "failed" ELSE "returned"
         /\ result' = end.value
         /\ error' = IF end.threw THEN OuterCatch(end.error) ELSE error
         /\ failStage' = IF end.threw THEN stage ELSE failStage
         /\ UNCHANGED requests
Settle(end, stage) ==
    /\ pc' = "done"
    /\ UNCHANGED requests
    /\ IF end.threw
       THEN /\ outcome' = "failed"
            /\ error' = OuterCatch(end.error)
            /\ failStage' = stage
            /\ UNCHANGED result
       ELSE /\ outcome' = "returned"
            /\ result' = end.value
            /\ UNCHANGED <<error, failStage>>

\* fetch() resolves: the service answered, with whatever status
FetchResolve ==
    /\ pc = "request"
    /\ \E resp \in Responses :
          /\ response' = resp
          /\ pc' = IF ok(resp.status) THEN "dataBody" ELSE "errorBody"
    /\ UNCHANGED <<query, files, apiKey, promises, settled, documentContents,
                   prompt, requests, stages, outcome, result, error,
                   failStage>>

\* fetch() rejects: the service could not be reached
FetchReject ==
    /\ pc = "request"
    /\ \E e \in TransportFailures : Settle(Throw(e), "request")
    /\ UNCHANGED <<query, files, apiKey, promises, settled, documentContents,
                   prompt, stages, response>>

\* response.json() of a non-2xx response settles
ErrorBodySettle ==
    /\ pc = "errorBody"
    /\ Settle(NotOkBranch(response), "request")
    /\ UNCHANGED <<query, files, apiKey, promises, settled, documentContents,
                   prompt, stages, response>>

\* response.json() of a 2xx response settles
DataBodySettle ==
    /\ pc = "dataBody"
    /\ LET rc == ReadCompletion(response.body) IN
          /\ stages' = IF rc.stage = "validate"
                       THEN Append(stages, "validate") ELSE stages
          /\ Settle(rc.end, rc.stage)
    /\ UNCHANGED <<query, files, apiKey, promises, settled, documentContents,
                   prompt, response>>

\* a task of an invocation of evaluateClaim
Service ==
    \/ Call
    \/ \E i \in 1..MaxFiles : ReaderOnload(i)
    \/ \E i \in 1..MaxFiles : ReaderOnerror(i)
    \/ FetchResolve
    \/ FetchReject
    \/ ErrorBodySettle
    \/ DataBodySettle

\* evaluateClaim called on its own, with any arguments
Next ==
    \/ Call /\ UNCHANGED uiVars
    \/ \E i \in 1..MaxFiles : ReaderOnload(i) /\ UNCHANGED uiVars
    \/ \E i \in 1..MaxFiles : ReaderOnerror(i) /\ UNCHANGED uiVars
    \/ FetchResolve /\ UNCHANGED uiVars
    \/ FetchReject /\ UNCHANGED uiVars
    \/ ErrorBodySettle /\ UNCHANGED uiVars
    \/ DataBodySettle /\ UNCHANGED uiVars

(***************************************************************************)
(* The ClaimEvaluator component, in its two variants: the one that passes  *)
(* no files (ClaimEvaluator.tsx) and the one with a file upload.           *)
(***************************************************************************)
Variants == {"text", "upload"}
\* number of input events (typing, picking and removing files) followed
MaxEdits == 3

\* String.prototype.trim removes the WhiteSpace and LineTerminator characters
\* of ECMAScript.  Those a string of this module can hold: space, TAB, LF, CR,
\* FF, and, written literally in the last four strings, VT (U+000B), the
\* no-break space (U+00A0), the Ogham space mark (U+1680) and the byte order
\* mark (U+FEFF).  The remaining ones (U+2000..U+200A, U+2028, U+2029, U+202F,
\* U+205F, U+3000) cannot be written in a string here and are outside the
\* inputs of the model.
Whitespace == {" ", "\t", "\n", "\r", "\f", "", " ", " ", "﻿"}
RECURSIVE TrimStart(_)
TrimStart(str) ==
    IF Len(str) > 0 /\ SubSeq(str, 1, 1) \in Whitespace
    THEN TrimStart(SubSeq(str, 2, Len(str))) ELSE str
RECURSIVE TrimEnd(_)
TrimEnd(str) ==
    IF Len(str) > 0 /\ SubSeq(str, Len(str), Len(str)) \in Whitespace
    THEN TrimEnd(SubSeq(str, 1, Len(str) - 1)) ELSE str
Trim(str) == TrimEnd(TrimStart(str))

\* String.prototype.toLowerCase, on ASCII letters
UpperCase == "ABCDEFGHIJKLMNOPQRSTUVWXYZ"
LowerCase == "abcdefghijklmnopqrstuvwxyz"
LowerChar(c) ==
    IF \E k \in 1..Len(UpperCase) : SubSeq(UpperCase, k, k) = c
    THEN LET k == CHOOSE k \in 1..Len(UpperCase) : SubSeq(UpperCase, k, k) = c
         IN SubSeq(LowerCase, k, k)
    ELSE c
RECURSIVE ToLowerCase(_)
ToLowerCase(str) ==
    IF Len(str) = 0 THEN ""
    ELSE LowerChar(SubSeq(str, 1, 1)) \o ToLowerCase(SubSeq(str, 2, Len(str)))

\* what the user can type
TypedQueries == {"", " \f\n", "32-year-old female, appendectomy, 2-year-old policy"}
TypedApiKeys == {"", " \f", "sk-test"}

\* what the user can pick in the file dialog: the documents above, an image
\* and a scan of 11 MB
PngFile == [name |-> "photo.png", type |-> "image/png", text |-> "PNG"]
BigPdfFile == [name |-> "scan.pdf", type |-> "application/pdf",
               text |-> "%PDF-1.7 scan"]
PickableFiles == FileKinds \cup {PngFile, BigPdfFile}
size(file) ==
    IF file = BigPdfFile THEN 11 * 1024 * 1024 ELSE 20 * 1024

\* validTypes.some(type => file.name.toLowerCase().endsWith(type) ||
\*                         file.type.includes(type.replace('.', '')))
validTypes == <<".pdf", ".doc", ".docx", ".txt", ".eml">>
EndsWith(str, suffix) ==
    /\ Len(str) >= Len(suffix)
    /\ SubSeq(str, Len(str) - Len(suffix) + 1, Len(str)) = suffix
Includes(str, part) ==
    \E k \in 1..(Len(str) - Len(part) + 1) :
        SubSeq(str, k, k + Len(part) - 1) = part
hasValidExtension(file) ==
    \E k \in 1..Len(validTypes) :
        \/ EndsWith(ToLowerCase(file.name), validTypes[k])
        \/ Includes(file.type, SubSeq(validTypes[k], 2, Len(validTypes[k])))
validFile(file) ==
    hasValidExtension(file) /\ size(file) <= 10 * 1024 * 1024
ValidPickableFiles == {file \in PickableFiles : validFile(file)}
\* what one use of the file dialog can select
Selections == {<<file>> : file \in PickableFiles}
                 \cup {<<TextFile, PngFile>>}

\* the guards of handleEvaluate: the toast of the first guard that fails,
\* "pass" when none does
GuardTextUntrimmed(q, k) ==
    IF q = "" THEN "query"
    ELSE IF k = "" THEN "apiKey"
    ELSE "pass"
GuardText(q, k) ==
    IF Trim(q) = "" THEN "query"
    ELSE IF Trim(k) = "" THEN "apiKey"
    ELSE "pass"
GuardUpload(q, fs, k) ==
    IF Trim(q) = "" THEN "query"
    ELSE IF Len(fs) = 0 THEN "files"
    ELSE IF Trim(k) = "" THEN "apiKey"
    ELSE "pass"

GuardToast(guard) ==
    CASE guard = "query" ->
            Toast("Query required", "Please describe your medical case",
                  "destructive")
      [] guard = "files" ->
            Toast("Policy documents required",
                  "Please upload at least one policy document", "destructive")
      [] OTHER ->
            Toast("API Key required",
                  "Please enter your OpenAI API key to evaluate the claim",
                  "destructive")

\* handleEvaluate after `await LLMService.evaluateClaim(...)`: the try
\* block, the catch and the finally
resultAfterAwaitOrNull(previous, out, value) ==
    IF out = "returned" THEN value ELSE NoResult
resultAfterAwait(previous, out, value) ==
    IF out = "returned" THEN value ELSE previous

toastAfterAwait(out, value, err) ==
    IF out = "returned"
    THEN IF value.decision.t = "string"
         THEN Toast("Evaluation complete",
                    "Claim " \o ToLowerCase(value.decision.s), "")
         ELSE Toast("Evaluation failed",
                    "evaluation.decision.toLowerCase is not a function",
                    "destructive")
    ELSE Toast("Evaluation failed",
               IF InstanceOfError(err) THEN err.message
               ELSE "An error occurred during evaluation", "destructive")

isEvaluatingAfterAwaitNoFinally(out) == out = "failed"
isEvaluatingAfterAwait(out) == FALSE

InitUI ==
    /\ variant \in Variants
    /\ Mounted
    /\ query = "" /\ files = << >> /\ apiKey = ""
    /\ pc = "none"
    /\ promises = << >>
    /\ settled = << >>
    /\ documentContents = << >>
    /\ prompt = ""
    /\ requests = << >>
    /\ stages = << >>
    /\ response = NoResponse
    /\ outcome = "pending"
    /\ result = NoResult
    /\ error = NoError
    /\ failStage = ""

\* No event is handled between the click that passes the guards and the
\* call of evaluateClaim it makes.
Interactive == pc # "idle"

\* onChange of the case description
setQuery ==
    /\ Interactive
    /\ edits < MaxEdits
    /\ edits' = edits + 1
    /\ \E v \in TypedQueries : uiQuery' = v
    /\ UNCHANGED <<variant, uiFiles, uiApiKey, isEvaluating, uiResult,
                   showApiKeyInput, toast>>
    /\ UNCHANGED serviceVars

\* onChange of the API key input, which is rendered when showApiKeyInput
setApiKey ==
    /\ Interactive
    /\ showApiKeyInput
    /\ edits < MaxEdits
    /\ edits' = edits + 1
    /\ \E v \in TypedApiKeys : uiApiKey' = v
    /\ UNCHANGED <<variant, uiQuery, uiFiles, isEvaluating, uiResult,
                   showApiKeyInput, toast>>
    /\ UNCHANGED serviceVars

\* onChange of the file input (upload variant)
handleFileUpload ==
    /\ Interactive
    /\ variant = "upload"
    /\ edits < MaxEdits
    /\ edits' = edits + 1
    /\ \E uploadedFiles \in Selections :
          LET validFiles == SelectSeq(uploadedFiles,
                                     LAMBDA f : f \in ValidPickableFiles) IN
          /\ Len(uiFiles) + Len(validFiles) <= MaxFiles
          /\ toast' = IF Len(validFiles) # Len(uploadedFiles)
                      THEN Toast("Some files were rejected",
                             "Please upload PDF, Word, or email files under 10MB",
                             "destructive")
                      ELSE toast
          /\ uiFiles' = uiFiles \o validFiles
    /\ UNCHANGED <<variant, uiQuery, uiApiKey, isEvaluating, uiResult,
                   showApiKeyInput>>
    /\ UNCHANGED serviceVars

\* the remove button of file `index` (upload variant)
removeFile(index) ==
    /\ Interactive
    /\ variant = "upload"
    /\ index \in 1..Len(uiFiles)
    /\ edits < MaxEdits
    /\ edits' = edits + 1
    /\ uiFiles' = [k \in 1..(Len(uiFiles) - 1) |->
                     IF k < index THEN uiFiles[k] ELSE uiFiles[k + 1]]
    /\ UNCHANGED <<variant, uiQuery, uiApiKey, isEvaluating, uiResult,
                   showApiKeyInput, toast>>
    /\ UNCHANGED serviceVars

\* the guard that stops a click now, or "pass"
Guard ==
    IF variant = "upload" THEN GuardUpload(uiQuery, uiFiles, uiApiKey)
    ELSE GuardText(uiQuery, uiApiKey)

\* a click on Evaluate that a guard of handleEvaluate stops
handleEvaluateRejected ==
    /\ Interactive
    /\ ~isEvaluating
    /\ Guard # "pass"
    /\ toast' = GuardToast(Guard)
    /\ showApiKeyInput' = IF Guard = "apiKey" THEN TRUE ELSE showApiKeyInput
    /\ UNCHANGED <<variant, uiQuery, uiFiles, uiApiKey, isEvaluating,
                   uiResult, edits>>
    /\ UNCHANGED serviceVars

\* a click on Evaluate that passes the guards: setIsEvaluating(true) and a
\* new invocation of evaluateClaim with the current query, files and key
handleEvaluate ==
    /\ Interactive
    /\ ~isEvaluating
    /\ Guard = "pass"
    /\ isEvaluating' = TRUE
    /\ query' = uiQuery
    /\ files' = IF variant = "upload" THEN uiFiles ELSE << >>
    /\ apiKey' = uiApiKey
    /\ pc' = "idle"
    /\ promises' = << >>
    /\ settled' = << >>
    /\ documentContents' = << >>
    /\ prompt' = ""
    /\ requests' = << >>
    /\ stages' = << >>
    /\ response' = NoResponse
    /\ outcome' = "pending"
    /\ result' = NoResult
    /\ error' = NoError
    /\ failStage' = ""
    /\ UNCHANGED <<variant, uiQuery, uiFiles, uiApiKey, uiResult,
                   showApiKeyInput, toast, edits>>

\* handleEvaluate resumes in the task in which evaluateClaim settles
AfterAwait ==
    IF pc # "done" /\ pc' = "done"
    THEN /\ uiResult' = resultAfterAwait(uiResult, outcome', result')
         /\ toast' = toastAfterAwait(outcome', result', error')
         /\ isEvaluating' = isEvaluatingAfterAwait(outcome')
         /\ UNCHANGED <<variant, uiQuery, uiFiles, uiApiKey, showApiKeyInput,
                        edits>>
    ELSE UNCHANGED uiVars

\* the answers of the service followed for the component: one of each kind
SampleResponses ==
    {[status |-> 200, statusText |-> "OK", body |-> b] : b \in
        {Body("object", "absent", Undefined, "one",
              Str(Stringify(JSONObject(Obj(1), Str("Approved"), Arr(1))))),
         Body("object", "absent", Undefined, "one",
              Str(Stringify(JSONObject(Obj(0), Str("Maybe"), Arr(0))))),
         Body("object", "absent", Undefined, "one",
              Str(Stringify(JSONObject(Undefined, Str("Approved"), Arr(1))))),
         Body("object", "absent", Undefined, "one",
              Str("I cannot process this request.")),
         Body("object", "absent", Undefined, "empty", Undefined)}}
    \cup
    {[status |-> 401, statusText |-> "Unauthorized",
      body |-> Body("object", "object", Str("Incorrect API key provided"),
                    "absent", Undefined)],
     [status |-> 500, statusText |-> "Internal Server Error",
      body |-> EmptyObjectBody]}

\* the tasks of the invocation the component made
EvaluateClaimCall == Call /\ AfterAwait
EvaluateClaimOnload == \E i \in 1..MaxFiles : ReaderOnload(i) /\ AfterAwait
EvaluateClaimOnerror == \E i \in 1..MaxFiles : ReaderOnerror(i) /\ AfterAwait
EvaluateClaimFetchResolve ==
    FetchResolve /\ response' \in SampleResponses /\ AfterAwait
EvaluateClaimFetchReject == FetchReject /\ AfterAwait
EvaluateClaimErrorBody == ErrorBodySettle /\ AfterAwait
EvaluateClaimDataBody == DataBodySettle /\ AfterAwait

NextUI ==
    \/ setQuery
    \/ setApiKey
    \/ handleFileUpload
    \/ \E index \in 1..MaxFiles : removeFile(index)
    \/ handleEvaluateRejected
    \/ handleEvaluate
    \/ EvaluateClaimCall
    \/ EvaluateClaimOnload
    \/ EvaluateClaimOnerror
    \/ EvaluateClaimFetchResolve
    \/ EvaluateClaimFetchReject
    \/ EvaluateClaimErrorBody
    \/ EvaluateClaimDataBody

SpecUI == InitUI /\ [][NextUI]_vars

(***************************************************************************)
(* Properties.                                                             *)
(***************************************************************************)
PipelineOrder == <<"ingest", "compose", "request", "validate">>
Started(stage) == \E k \in 1..Len(stages) : stages[k] = stage
AllReadsSucceeded ==
    /\ Len(promises) = Len(files)
    /\ \A i \in 1..Len(promises) : promises[i].state = "fulfilled"
SomeReadFailed == \E i \in 1..Len(promises) : promises[i].state = "rejected"
GotResponse == response # NoResponse

\* C1: the stages of one invocation start in the order ingest, compose,
\* request, validate; a request has been issued only if every read has
\* succeeded; validation has been attempted only if a 2xx response was
\* received; after a failure the last stage started is the one that failed.
C1_StagesInOrder ==
    /\ stages = SubSeq(PipelineOrder, 1, Len(stages))
    /\ (requests # << >> \/ Started("request")) => AllReadsSucceeded
    /\ Started("validate") => (GotResponse /\ ok(response.status))
    /\ outcome = "failed" =>
          (stages # << >> /\ stages[Len(stages)] = failStage)
    /\ outcome = "failed" /\ failStage = "ingest" =>
          (requests = << >> /\ ~GotResponse)
    /\ GotResponse /\ ~ok(response.status) => ~Started("validate")

\* C1 witness: an invocation with a file read by a reader that got as far
\* as validation and failed there
C1_Witness ==
    /\ outcome = "failed"
    /\ failStage = "validate"
    /\ stages = PipelineOrder
    /\ \E i \in 1..Len(files) : files[i].type # "application/pdf"

\* C2: whenever a read of the invocation has failed, evaluateClaim has
\* failed, no request was issued and no prompt composed, and nothing was
\* returned, whatever reads succeeded before or after it.
C2_FailedReadFailsAll ==
    SomeReadFailed =>
        /\ outcome = "failed"
        /\ failStage = "ingest"
        /\ requests = << >>
        /\ prompt = ""
        /\ documentContents = << >>
        /\ result = NoResult

\* C2 witness: one read succeeded first, then another failed
C2_Witness ==
    /\ Len(settled) = 2
    /\ promises[settled[1]].state = "fulfilled"
    /\ files[settled[1]].type # "application/pdf"
    /\ promises[settled[2]].state = "rejected"

\* what file i contributes when its read succeeds
ExpectedDoc(file) ==
    [filename |-> file.name,
     content |-> IF file.type = "application/pdf"
                 THEN "[PDF Content from " \o file.name \o "]\n\nThis is simulated PDF text content. In a real implementation, this would be extracted using PDF.js or a similar library."
                 ELSE file.text]
ExpectedSections ==
    [i \in 1..Len(files) |->
        "=== " \o files[i].name \o " ===\n" \o ExpectedDoc(files[i]).content]

\* C3: once the reads are joined, document i is the document of file i and
\* the sections of the prompt that was sent are in the order of the file
\* list, in whatever order the reads completed.
C3_InputOrderPreserved ==
    requests # << >> =>
        /\ documentContents = [i \in 1..Len(files) |-> ExpectedDoc(files[i])]
        /\ requests[1].user =
              PromptHead \o query \o "\n\nPOLICY DOCUMENTS:\n"
                \o Join(ExpectedSections, "\n\n")
                \o PromptSchema \o PromptGuidelines

\* C3 witness: two different files whose reads completed in reverse order
C3_Witness ==
    /\ requests # << >>
    /\ Len(files) >= 2
    /\ files[1] # files[2]
    /\ \E a, b \in 1..Len(settled) :
          a < b /\ settled[a] = 2 /\ settled[b] = 1

\* C4: an invocation that reached the request stage has issued exactly one
\* request, also after it ended, with whatever outcome; an invocation that
\* did not reach it (ingestion pending or failed) has issued none.
C4_ExactlyOneRequest ==
    /\ Started("request") => Len(requests) = 1
    /\ ~Started("request") => requests = << >>
    /\ pc \in {"request", "errorBody", "dataBody"} => Len(requests) = 1
    /\ outcome = "failed" /\ failStage = "ingest" => requests = << >>

\* C4 witness: the invocation ended in a failure of the request stage
C4_Witness ==
    /\ pc = "done"
    /\ outcome = "failed"
    /\ failStage = "request"
    /\ Len(requests) = 1

\* the invocation ended after a non-2xx response
NonOkEnded == pc = "done" /\ GotResponse /\ ~ok(response.status)
\* the invocation ended after a 2xx response that carried a completion text
CompletionEnded ==
    /\ pc = "done" /\ GotResponse /\ ok(response.status)
    /\ response.body.json = "object" /\ response.body.choices = "one"
    /\ response.body.content.t = "string" /\ response.body.content.s # ""
CompletionText == response.body.content.s
Parsed == JSONParse(CompletionText)
RequiredFields == {"parsedQuery", "decision", "justification"}
Missing(v) == {k \in RequiredFields : v[k].t = "undefined"}
Falsy == {Null, Str(""), Num(0), Bool(FALSE)}
GenericMessage(resp) ==
    "OpenAI API error: " \o ToString(resp.status) \o " " \o resp.statusText
UnparseableMessage == "Invalid JSON response from AI. Please try again."

\* statuses by which a service rejects the credential
AuthStatuses == {401, 403}
IsAuth(status) == status \in AuthStatuses

\* C5: the failure raised for a non-2xx response tells a rejected
\* credential from any other non-2xx answer: no response of the other kind
\* makes evaluateClaim fail with the same error.  (Bodies that are the JSON
\* value null are left aside: see C6.)
C5_AuthToldApart ==
    (NonOkEnded /\ response.body.json # "null") =>
        \A r \in Responses :
            (/\ ~ok(r.status)
             /\ r.body.json # "null"
             /\ IsAuth(r.status) # IsAuth(response.status))
                => OuterCatch(NotOkBranch(r).error) # error

\* the body of the response carries an error message
CarriesMessage(body) ==
    /\ body.json = "object"
    /\ body.errorField = "object"
    /\ body.errorMessage.t = "string"
    /\ body.errorMessage.s # ""

\* C6: after a non-2xx response evaluateClaim has failed with the message
\* the body carries, or with the message derived from the status when the
\* body carries none or is not JSON, and no completion was validated.
C6_NonOkMessage ==
    NonOkEnded =>
        /\ outcome = "failed"
        /\ failStage = "request"
        /\ error.message = IF CarriesMessage(response.body)
                           THEN response.body.errorMessage.s
                           ELSE GenericMessage(response)
        /\ ~Started("validate")
        /\ result = NoResult

\* C7: a completion that parses as an object lacking a required field fails
\* validation with a message that differs from the one for unparseable text
\* and from the one for an object lacking other fields.
C7_MissingFieldNamed ==
    (CompletionEnded /\ ~Parsed.threw /\ Parsed.value.t = "object"
        /\ Missing(Parsed.value) # {}) =>
        /\ outcome = "failed"
        /\ failStage = "validate"
        /\ error.message # UnparseableMessage
        /\ \A v \in JSONValues :
              (v.t = "object" /\ Missing(v) # {}
                  /\ Missing(v) # Missing(Parsed.value))
                => Validate(Stringify(v)).error.message # error.message

\* the completion parsed as an object with the three required keys
AllPresent ==
    CompletionEnded /\ ~Parsed.threw /\ Parsed.value.t = "object"
        /\ Missing(Parsed.value) = {}

\* C8 as stated: a completion that parses as an object with the three
\* required keys is returned, whatever the values of the keys.
C8_PresentFieldsAccepted ==
    AllPresent => (outcome = "returned" /\ result = Parsed.value)

\* C8 amended: a completion that parses as an object with the three
\* required keys is returned unchanged when none of their values is null,
\* "", 0 or false (an empty array or object, or any other decision string,
\* is accepted), and fails validation when one of them is.
C8_TruthyFieldsAccepted ==
    AllPresent =>
        IF \A k \in RequiredFields : Parsed.value[k] \notin Falsy
        THEN outcome = "returned" /\ result = Parsed.value
        ELSE outcome = "failed" /\ failStage = "validate"
                /\ result = NoResult

\* C8 witness: empty parsedQuery and justification and an unlisted decision
\* were returned
C8_Witness ==
    /\ AllPresent
    /\ outcome = "returned"
    /\ result.parsedQuery = Obj(0)
    /\ result.justification = Arr(0)
    /\ result.decision = Str("Maybe")

Decisions == {"Approved", "Rejected", "More Info Needed"}

\* C9: with at least one document and a non-empty narrative, evaluateClaim
\* ends either returning a result whose decision is one of the three
\* literals or failing with the error of one of the stages.
C9_DecisionOrTypedFailure ==
    (pc = "done" /\ Len(files) >= 1 /\ query # "") =>
        \/ /\ outcome = "returned"
           /\ result.decision.t = "string"
           /\ result.decision.s \in Decisions
        \/ /\ outcome = "failed"
           /\ failStage \in {"ingest", "request", "validate"}
           /\ InstanceOfError(error)

\* C10: a 2xx response whose completion text is not JSON makes evaluateClaim
\* fail in validation with the invalid-JSON message, and nothing is
\* returned.
C10_UnparseableFails ==
    (CompletionEnded /\ CompletionText \in ProseTexts) =>
        /\ outcome = "failed"
        /\ failStage = "validate"
        /\ error = [name |-> "Error",
                    message |-> "Invalid JSON response from AI. Please try again."]
        /\ result = NoResult

\* C10 witness: the completion was the refusal sentence
C10_Witness ==
    /\ CompletionEnded
    /\ CompletionText = "I cannot process this request."
    /\ outcome = "failed"

\* the error first thrown in the invocation, before any catch
RaisedError ==
    CASE failStage = "ingest" ->
            promises[CHOOSE k \in 1..Len(promises) :
                        promises[k].state = "rejected"].error
      [] failStage = "request" /\ ~GotResponse ->
            CHOOSE e \in TransportFailures : TRUE
      [] failStage = "request" /\ GotResponse /\ ~ok(response.status) ->
            NotOkBranch(response).error
      [] failStage = "request" /\ GotResponse /\ ok(response.status) ->
            ReadCompletion(response.body).end.error
      [] OTHER -> TryValidate(CompletionText).error

\* C11: the error evaluateClaim rejects with is the error that was thrown
\* in the failing stage, with the same class and message, and an error
\* thrown in a stage always makes evaluateClaim fail.
C11_FailureUnchanged ==
    /\ outcome = "failed" => error = RaisedError
    /\ (CompletionEnded /\ TryValidate(CompletionText).threw)
          => outcome = "failed"
    /\ Len(requests) <= 1

\* C13: with an empty file list the call itself composes the prompt with an
\* empty document section and issues the one request; the invocation never
\* fails in ingestion, and every outcome follows a response or a transport
\* failure.
C13_EmptyFileList ==
    (files = << >> /\ pc # "idle") =>
        /\ documentContents = << >>
        /\ prompt = PromptHead \o query \o "\n\nPOLICY DOCUMENTS:\n"
                      \o PromptSchema \o PromptGuidelines
        /\ Len(requests) = 1
        /\ requests[1].user = prompt
        /\ failStage # "ingest"
        /\ outcome = "failed" => failStage \in {"request", "validate"}
        /\ outcome = "returned" => (GotResponse /\ ok(response.status))

\* C13 witness: an invocation without files returned a result
C13_Witness ==
    /\ files = << >>
    /\ outcome = "returned"
    /\ Len(requests) = 1

\* Word and PDF documents
BinaryTypes ==
    {"application/pdf", "application/msword",
     "application/vnd.openxmlformats-officedocument.wordprocessingml.document"}

\* C14: the read of a PDF or Word file never fails and never yields the
\* text of the file: what it yields is a placeholder.  The read of any
\* other file yields the text of the file.  The code does this for
\* application/pdf only: a Word document is handed to reader.readAsText,
\* so that its bytes are decoded as text and its read can fail.
C14_BinaryPlaceholder ==
    \A i \in 1..Len(promises) :
        IF files[i].type \in BinaryTypes
        THEN /\ promises[i].state # "rejected"
             /\ promises[i].state = "fulfilled"
                   => promises[i].doc.content # files[i].text
        ELSE promises[i].state = "fulfilled"
                   => promises[i].doc.content = files[i].text

\* the 2xx response carried a choices list but no content to parse
NoContentEnded ==
    /\ pc = "done" /\ GotResponse /\ ok(response.status)
    /\ response.body.json = "object"
    /\ \/ response.body.choices = "empty"
       \/ /\ response.body.choices = "one"
          /\ response.body.content \in {Undefined, Null, Str("")}

\* C17: a 2xx response whose first choice has no content, or an empty one,
\* or whose choices list is empty, makes evaluateClaim fail with 'No
\* response content from OpenAI'; no validation is started and nothing is
\* returned.
C17_NoContentFails ==
    NoContentEnded =>
        /\ outcome = "failed"
        /\ error = [name |-> "Error",
                    message |-> "No response content from OpenAI"]
        /\ ~Started("validate")
        /\ result = NoResult

\* C17 witness: the content of the first choice was the empty string
C17_Witness ==
    /\ NoContentEnded
    /\ response.body.choices = "one"
    /\ response.body.content = Str("")
    /\ outcome = "failed"

(***************************************************************************)
(* Properties of the component.                                            *)
(***************************************************************************)
\* evaluateClaim is being called or its promise is not settled yet
Outstanding == pc \in {"idle", "ingest", "request", "errorBody", "dataBody"}
\* the step in which evaluateClaim settles
Settles == pc # "done" /\ pc' = "done"
\* a click on Evaluate
Click == handleEvaluateRejected \/ handleEvaluate
Validated(r) ==
    /\ r.t = "object"
    /\ \A k \in RequiredFields : r[k] \notin (Falsy \cup {Undefined})

\* C12: the component's result changes only in the step in which
\* evaluateClaim returns, and then to the returned value, which passed
\* validation; in the step in which evaluateClaim fails nothing is returned
\* and the component's result keeps its value.
C12_ResultOnlyFromSuccess ==
    [][ /\ uiResult' # uiResult =>
              (Settles /\ outcome' = "returned" /\ uiResult' = result')
        /\ (Settles /\ outcome' = "returned") =>
              (uiResult' = result' /\ Validated(result'))
        /\ (Settles /\ outcome' = "failed") =>
              (uiResult' = uiResult /\ result' = NoResult)
        /\ Settles => outcome' \in {"returned", "failed"} ]_vars

\* C12 witness: a call failed after an earlier one had succeeded, and the
\* earlier result is still there
C12_Witness ==
    /\ pc = "done"
    /\ outcome = "failed"
    /\ uiResult # NoResult
    /\ Validated(uiResult)

\* C15: isEvaluating holds exactly while a call of evaluateClaim is being
\* made or is outstanding; it becomes true only in a click that passes the
\* guards and starts the call, becomes false in the step in which the call
\* settles, with either outcome, and a click stopped by a guard leaves it
\* as it is.
C15_EvaluatingWhileOutstanding ==
    /\ [](isEvaluating <=> Outstanding)
    /\ [][ /\ (~isEvaluating /\ isEvaluating') =>
                 /\ Trim(uiQuery) # "" /\ Trim(uiApiKey) # ""
                 /\ variant = "upload" => uiFiles # << >>
                 /\ pc' = "idle"
           /\ Settles => (isEvaluating /\ ~isEvaluating')
           /\ (isEvaluating /\ ~isEvaluating') => Settles
           /\ handleEvaluateRejected => (isEvaluating' = isEvaluating)
           /\ isEvaluating => ~ENABLED Click ]_vars

\* C15 witness: the call failed and the flag is false again
C15_Witness ==
    /\ pc = "done"
    /\ outcome = "failed"
    /\ ~isEvaluating
    /\ toast.title = "Evaluation failed"

\* the arguments of every call made by the component passed the guards
CallArgumentsValid ==
    pc # "none" =>
        /\ Trim(query) # ""
        /\ Trim(apiKey) # ""
        /\ variant = "upload" => files # << >>
        /\ variant = "text" => files = << >>

\* what a click does when `guard` is the first guard that fails
ClickEffect(guard) ==
    IF guard = "pass"
    THEN /\ pc' = "idle" /\ isEvaluating'
         /\ query' = uiQuery /\ apiKey' = uiApiKey
         /\ UNCHANGED <<uiResult, showApiKeyInput, toast>>
    ELSE /\ UNCHANGED serviceVars
         /\ UNCHANGED <<uiResult, isEvaluating>>
         /\ showApiKeyInput' = (showApiKeyInput \/ guard = "apiKey")
         /\ toast'.title =
              CASE guard = "query" -> "Query required"
                [] guard = "files" -> "Policy documents required"
                [] OTHER -> "API Key required"

\* C16 as stated: evaluateClaim is called only with a case text and an API
\* key that are non-blank after trimming (and a file, in the upload
\* variant); a click checks the case text, then the API key, then the
\* files, and the first guard that fails stops it without a call and
\* without a change of result; showApiKeyInput becomes true only through
\* the API-key guard.
C16_GuardsKeyBeforeFiles ==
    /\ []CallArgumentsValid
    /\ [][ /\ Click => ClickEffect(
                 IF Trim(uiQuery) = "" THEN "query"
                 ELSE IF Trim(uiApiKey) = "" THEN "apiKey"
                 ELSE IF variant = "upload" /\ uiFiles = << >> THEN "files"
                 ELSE "pass")
           /\ (~showApiKeyInput /\ showApiKeyInput') =>
                 (Click /\ Trim(uiApiKey) = "") ]_vars

\* C16 amended: as stated, but in the upload variant a click checks the
\* case text, then the files, then the API key.
C16_GuardsInCodeOrder ==
    /\ []CallArgumentsValid
    /\ [][ /\ Click => ClickEffect(
                 IF Trim(uiQuery) = "" THEN "query"
                 ELSE IF variant = "upload" /\ uiFiles = << >> THEN "files"
                 ELSE IF Trim(uiApiKey) = "" THEN "apiKey"
                 ELSE "pass")
           /\ (~showApiKeyInput /\ showApiKeyInput') =>
                 (Click /\ Trim(uiApiKey) = "") ]_vars

\* C16 witness: in the upload variant a click with a case text, no file and
\* no key was stopped by the file guard, and the key input is not shown
C16_Witness ==
    /\ variant = "upload"
    /\ Trim(uiQuery) # ""
    /\ uiFiles = << >>
    /\ Trim(uiApiKey) = ""
    /\ toast.title = "Policy documents required"
    /\ ~showApiKeyInput
    /\ pc = "none"

Spec == Init /\ [][Next]_vars
====
